---- MODULE Spec2Model ----
(***************************************************************************)
(* Model of the JazzHR resume downloader: the browser run of               *)
(* JazzHRBrowserDownloader.download_all_resumes (download_resumes_browser  *)
(* .py) executed on an executor thread, and the API handlers of            *)
(* api_server.py (start_download, run_download, cancel_download) that run  *)
(* on the event loop and share the download record and the downloader      *)
(* object with that thread.                                                *)
(***************************************************************************)
EXTENDS Integers, Sequences, FiniteSets, TLC

\* ------------------------------------------------------------------------
\* Bounds of the model
\* ------------------------------------------------------------------------
MaxElems == 2

\* ------------------------------------------------------------------------
\* Program constants
\* ------------------------------------------------------------------------
max_wait == 600
check_interval == 3

\* DownloadStatus (api_server.py); NoDownload is "download_id not in downloads"
NoDownload == "none"
PENDING == "pending"
IN_PROGRESS == "in_progress"
COMPLETED == "completed"
FAILED == "failed"
CANCELLED == "cancelled"
LOGIN_REQUIRED == "login_required"

Terminal == {COMPLETED, FAILED, CANCELLED, LOGIN_REQUIRED}

\* Exception messages, as the sequence of their words
MsgNoCookies == <<"Login", "required", "but", "no", "cookies", "provided", "for", "headless", "mode">>
MsgLoginTimeout == <<"Login", "failed", "or", "timed", "out">>
MsgInvalidCookies == <<"Authentication", "failed:", "Invalid", "or", "expired", "cookies">>
MsgLoginVerification == <<"Login", "verification", "failed">>
MsgWebDriver == <<"WebDriverException">>
MsgOSError == <<"OSError">>
NoMsg == <<>>

\* `"LOGIN_REQUIRED" in error_msg`
Contains(msg, token) == \E k \in 1..Len(msg) : msg[k] = token

VARIABLES
    status,                   \* downloads[id]["status"]
    stats,                    \* downloads[id]["stats"]: <<>> when the key is absent
    error,                    \* downloads[id]["error"]
    dlCookies,                \* downloads[id]["cookies"]: "none" | "empty" | "some"
    active_downloaders,       \* download_id in active_downloaders
    active_futures,           \* download_id in active_futures
    future,                   \* the asyncio future: "none" | "pending" | "done" | "cancelled"
    taskPc,                   \* the run_download task: "none" | "queued" | "awaiting" | "done"
    cancelPc,                 \* cancel_download: "idle" | "mid"
    headless,                 \* use_headless (HEADLESS / DISPLAY environment)
    cookies,                  \* truthiness of downloader.cookies
    pc,                       \* position of the worker thread
    navRet,                   \* call site of navigate_to_candidate_list
    login_required,           \* local of navigate_to_candidate_list
    wait_time,                \* local of wait_for_login
    driver,                   \* downloader.driver: "none" | "open" | "quit"
    cancelled,                \* downloader.cancelled
    downloaded_count,
    failed_count,
    downloaded_candidate_ids,
    all_candidate_ids,
    candidate_links,          \* local of download_all_resumes
    i,                        \* loop index of download_all_resumes (1-based)
    attempted,                \* history: the fetches made, in order
    outcome,                  \* how download_all_resumes left its try block
    raised,                   \* message of the exception in flight / raised
    sawCancelled              \* value of downloader.cancelled read by download_with_progress

apiVars == <<status, stats, error, dlCookies, active_downloaders, active_futures,
             future, taskPc, cancelPc>>
envVars == <<headless, cookies>>
navVars == <<navRet, login_required, wait_time>>
countVars == <<downloaded_count, failed_count, downloaded_candidate_ids>>
runVars == <<all_candidate_ids, candidate_links, i, attempted>>
programVars == <<status, stats, error, dlCookies, active_downloaders, active_futures,
                 future, taskPc, cancelPc, headless, cookies, pc, navRet, login_required,
                 wait_time, driver, cancelled, downloaded_count, failed_count,
                 downloaded_candidate_ids, all_candidate_ids, candidate_links, i,
                 attempted, outcome, raised, sawCancelled>>

\* verify_download and the click that precedes it (one candidate's fetch)
VARIABLES
    vpc,                      \* position in download_resume_from_profile / verify_download
    output_dir,               \* the files of self.output_dir: name -> "absent" | "empty" | "data"
    newest,                   \* the file of output_dir with the latest mtime (0: none)
    chrome_downloads,         \* a recent PDF in ~/Downloads: "absent" | "empty" | "data"
    initial_files,            \* local of verify_download
    elapsed,                  \* time.time() - start_time, in check intervals
    downloaded_files,         \* self.downloaded_files
    verified,                 \* return value of verify_download
    at_trigger,               \* history: the files present when the click was made
    strategy,                 \* the next document-location strategy (1..7; 8: all passed)
    file_element,             \* 0 for None, else the strategy that produced the element
    consulted,                \* history, kept until verification: the strategies run
    clicks,                   \* history, kept until verification: the clicks made
    phases                    \* history: the phases of the fetch that were entered

locateVars == <<strategy, file_element, consulted, clicks, phases>>
verifyVars == <<vpc, output_dir, newest, chrome_downloads, initial_files, elapsed,
                downloaded_files, verified, at_trigger, locateVars>>

\* two downloads of one process and the logger they share
VARIABLES
    lpc,                      \* download_with_progress of each download: "pending" | "running" | "done"
    handlers,                 \* the downloads whose ProgressHandler is attached to the logger
    log_entries,              \* log_entries of each download_with_progress
    download_state,           \* downloads[id]: logs, current, total
    emitted                   \* number of records logged so far

loggingVars == <<lpc, handlers, log_entries, download_state, emitted>>

\* scroll_to_load_all_candidates
VARIABLES
    spc,                      \* "idle" | "loop" | "restore" | "extract" | "raised"
    last_height,
    scroll_attempts,
    no_change_count,
    at_top,                   \* the window's scroll position is the top of the page
    iterations,               \* history: passes of the loop that scrolled
    last_change,              \* history: the last pass after which the height differed
    exit                      \* history: "none" | "stable" | "cap" | "cancelled"

scrollVars == <<spc, last_height, scroll_attempts, no_change_count, at_top,
                iterations, last_change, exit>>

\* one call of a function of get_candidate_links
VARIABLES
    fn,                       \* the function called
    arg,                      \* its input
    called,                   \* the call has returned
    ret                       \* its return value

callVars == <<fn, arg, called, ret>>

\* JazzHRAPI._rate_limit (download_resumes.py, download_job_description.py)
VARIABLES
    clock,                    \* time.time(), in seconds
    call_times,               \* self.call_times
    issued,                   \* history: the times of the requests of the last window
    waited                    \* history: the sleep of the last call (0: none)

rateVars == <<clock, call_times, issued, waited>>

pureVars == <<verifyVars, loggingVars, scrollVars, callVars, rateVars>>
vars == <<programVars, pureVars>>

\* ------------------------------------------------------------------------
\* Candidate list page and get_candidate_links
\* ------------------------------------------------------------------------
\* An element found by the adopted selector: id = 0 when the href has no
\* /candidate/<digits>, nh = is_candidate_not_hired, http = href starts with http
Elements == [id : 0..MaxElems, nh : BOOLEAN, http : BOOLEAN]

RECURSIVE SeqsUpTo(_, _)
SeqsUpTo(S, n) ==
    IF n = 0 THEN {<<>>}
    ELSE LET shorter == SeqsUpTo(S, n - 1)
         IN shorter \cup {Append(s, e) : s \in {t \in shorter : Len(t) = n - 1}, e \in S}

\* Candidate IDs are opaque to the code (compared for equality only), so the
\* pages are taken up to renaming: a new ID is the next unused number
FirstSeenInOrder(elems) ==
    \A k \in 1..Len(elems) :
        \A v \in 1..(elems[k].id - 1) : \E j \in 1..(k - 1) : elems[j].id = v

Pages == {p \in SeqsUpTo(Elements, MaxElems) : FirstSeenInOrder(p)}

\* mutant: no candidate ID is taken for seen
AlreadySeen_Never(dict, id) == FALSE

\* `if candidate_id in candidate_dict`
AlreadySeen(dict, id) == \E k \in 1..Len(dict) : dict[k].id = id

\* keys of candidate_dict, in insertion order, after the loop over the elements
RECURSIVE candidate_dict(_)
candidate_dict(elems) ==
    IF elems = <<>> THEN <<>>
    ELSE LET n == Len(elems)
             before == candidate_dict(SubSeq(elems, 1, n - 1))
             e == elems[n]
         IN IF e.id = 0 THEN before
            ELSE IF AlreadySeen(before, e.id) THEN before
            ELSE IF e.nh THEN before
            ELSE Append(before, e)

\* the profile URL of the run's job for a candidate ID / a link kept as found
normalized_links(elems) ==
    [k \in 1..Len(candidate_dict(elems)) |->
        [id |-> candidate_dict(elems)[k].id, profile |-> candidate_dict(elems)[k].http]]

\* mutant: the set initialised at line 408 is never refreshed from the dict
candidate_ids_NeverFilled(elems) == {}

candidate_ids(elems) == {candidate_dict(elems)[k].id : k \in 1..Len(candidate_dict(elems))}

ProgramIdle ==
    /\ status = NoDownload
    /\ stats = <<>>
    /\ error = NoMsg
    /\ dlCookies = "none"
    /\ active_downloaders = FALSE
    /\ active_futures = FALSE
    /\ future = "none"
    /\ taskPc = "none"
    /\ cancelPc = "idle"
    /\ cookies = FALSE
    /\ pc = "idle"
    /\ navRet = "none"
    /\ login_required = FALSE
    /\ wait_time = 0
    /\ driver = "none"
    /\ cancelled = FALSE
    /\ downloaded_count = 0
    /\ failed_count = 0
    /\ downloaded_candidate_ids = {}
    /\ all_candidate_ids = {}
    /\ candidate_links = <<>>
    /\ i = 0
    /\ attempted = <<>>
    /\ outcome = "running"
    /\ raised = NoMsg
    /\ sawCancelled = FALSE

MaxFiles == 2
Names == 1..MaxFiles

IdleVerify ==
    /\ vpc = "idle"
    /\ output_dir = [n \in Names |-> "absent"]
    /\ newest = 0
    /\ chrome_downloads = "absent"
    /\ initial_files = {}
    /\ elapsed = 0
    /\ downloaded_files = <<>>
    /\ verified = FALSE
    /\ at_trigger = {}
    /\ strategy = 1
    /\ file_element = 0
    /\ consulted = <<>>
    /\ clicks = <<>>
    /\ phases = <<>>

Downloads == {"A", "B"}

\* both downloads were created by start_download
InitLogging ==
    /\ lpc = [d \in Downloads |-> "pending"]
    /\ handlers = {}
    /\ log_entries = [d \in Downloads |-> <<>>]
    /\ download_state = [d \in Downloads |-> [logs |-> <<>>, current |-> 0, total |-> 0]]
    /\ emitted = 0

IdleScroll ==
    /\ spc = "idle"
    /\ last_height = 0
    /\ scroll_attempts = 0
    /\ no_change_count = 0
    /\ at_top = TRUE
    /\ iterations = 0
    /\ last_change = 0
    /\ exit = "none"

IdleRate ==
    /\ clock = 0
    /\ call_times = <<>>
    /\ issued = <<>>
    /\ waited = 0

IdleCall ==
    /\ fn = "none"
    /\ arg = <<>>
    /\ called = FALSE
    /\ ret = <<>>

Init ==
    /\ headless \in BOOLEAN
    /\ ProgramIdle
    /\ IdleVerify
    /\ InitLogging
    /\ IdleScroll
    /\ IdleCall
    /\ IdleRate

workerVars == <<pc, navRet, login_required, wait_time, driver, cancelled,
                downloaded_count, failed_count, downloaded_candidate_ids,
                all_candidate_ids, candidate_links, i, attempted, outcome, raised,
                sawCancelled>>

\* ------------------------------------------------------------------------
\* api_server.py: the event loop
\* ------------------------------------------------------------------------
start_download(job_id, reqCookies) ==
    /\ cancelPc = "idle"
    /\ status = NoDownload
    /\ job_id # ""
    /\ status' = PENDING
    /\ dlCookies' = reqCookies
    /\ taskPc' = "queued"
    /\ UNCHANGED <<stats, error, active_downloaders, active_futures, future, cancelPc>>
    /\ UNCHANGED envVars
    /\ UNCHANGED pureVars
    /\ UNCHANGED workerVars

\* mutant: a new downloader starts with the flag set
init_cancelled_True == TRUE

\* `self.cancelled = False` in the constructor of the downloader
init_cancelled == FALSE

\* run_download up to its first await: no other coroutine runs in between
run_download_start(envCookies, ctorRaises) ==
    /\ cancelPc = "idle"
    /\ taskPc = "queued"
    /\ IF ctorRaises
       THEN /\ status' = FAILED
            /\ error' = MsgOSError
            /\ taskPc' = "done"
            /\ UNCHANGED <<active_downloaders, active_futures, future, cookies, pc,
                           cancelled>>
       ELSE /\ status' = IN_PROGRESS
            /\ cancelled' = init_cancelled
            /\ cookies' = IF dlCookies = "none" THEN envCookies ELSE dlCookies = "some"
            /\ active_downloaders' = TRUE
            /\ active_futures' = TRUE
            /\ future' = "pending"
            /\ taskPc' = "awaiting"
            /\ pc' = "setup"
            /\ UNCHANGED error
    /\ UNCHANGED <<stats, dlCookies, cancelPc, headless, pureVars>>
    /\ UNCHANGED <<navRet, login_required, wait_time, driver,
                   downloaded_count, failed_count, downloaded_candidate_ids,
                   all_candidate_ids, candidate_links, i, attempted, outcome,
                   raised, sawCancelled>>

\* the executor's completion callback marks the asyncio future done
future_done ==
    /\ cancelPc = "idle"
    /\ pc = "done"
    /\ future = "pending"
    /\ future' = "done"
    /\ UNCHANGED <<status, stats, error, dlCookies, active_downloaders,
                   active_futures, taskPc, cancelPc>>
    /\ UNCHANGED envVars
    /\ UNCHANGED pureVars
    /\ UNCHANGED workerVars

\* run_download resumes from `await future`
run_download_resume ==
    /\ cancelPc = "idle"
    /\ taskPc = "awaiting"
    /\ future \in {"done", "cancelled"}
    /\ IF future = "cancelled"
       THEN /\ driver' = IF driver = "none" THEN "none" ELSE "quit"
            /\ status' = CANCELLED
       ELSE UNCHANGED <<driver, status>>
    /\ active_downloaders' = FALSE
    /\ active_futures' = FALSE
    /\ taskPc' = "done"
    /\ UNCHANGED <<stats, error, dlCookies, future, cancelPc>>
    /\ UNCHANGED envVars
    /\ UNCHANGED pureVars
    /\ UNCHANGED <<pc, navRet, login_required, wait_time, cancelled,
                   downloaded_count, failed_count, downloaded_candidate_ids,
                   all_candidate_ids, candidate_links, i, attempted, outcome,
                   raised, sawCancelled>>

\* mutant: every download can be cancelled, whatever its status
Cancellable_Always(st) == TRUE

\* cancel_download goes past its two early returns
Cancellable(st) == st \in {PENDING, IN_PROGRESS}

\* cancel_download: the status check and the write of CANCELLED
cancel_download_mark ==
    /\ cancelPc = "idle"
    /\ Cancellable(status)
    /\ status' = CANCELLED
    /\ cancelPc' = "mid"
    /\ UNCHANGED <<stats, error, dlCookies, active_downloaders, active_futures,
                   future, taskPc>>
    /\ UNCHANGED envVars
    /\ UNCHANGED pureVars
    /\ UNCHANGED workerVars

\* cancel_download: flag, browser, future and registries
cancel_download_stop ==
    /\ cancelPc = "mid"
    /\ cancelled' = IF active_downloaders THEN TRUE ELSE cancelled
    /\ driver' = IF active_downloaders /\ driver # "none" THEN "quit" ELSE driver
    /\ future' = IF active_futures /\ future = "pending" THEN "cancelled" ELSE future
    /\ active_downloaders' = FALSE
    /\ active_futures' = FALSE
    /\ cancelPc' = "idle"
    /\ UNCHANGED <<status, stats, error, dlCookies, taskPc>>
    /\ UNCHANGED envVars
    /\ UNCHANGED pureVars
    /\ UNCHANGED <<pc, navRet, login_required, wait_time, downloaded_count,
                   failed_count, downloaded_candidate_ids, all_candidate_ids,
                   candidate_links, i, attempted, outcome, raised, sawCancelled>>

\* ------------------------------------------------------------------------
\* download_resumes_browser.py: the worker thread
\* ------------------------------------------------------------------------
apiUntouched == UNCHANGED <<status, stats, error, dlCookies, active_downloaders,
                            active_futures, future, taskPc, cancelPc, headless, cookies, pureVars>>

\* the browser session answers only while it is open
DriverAlive == driver = "open"

\* setup_driver: webdriver.Chrome may fail, and so may what follows it
\* (maximize_window, load_cookies) once self.driver is set
setup_driver ==
    /\ pc = "setup"
    /\ \E r \in {"ok", "chrome_fails", "fails_after_chrome"} :
          /\ driver' = IF r = "chrome_fails" THEN driver ELSE "open"
          /\ IF r = "ok"
             THEN /\ pc' = "nav_get"
                  /\ navRet' = "first"
                  /\ UNCHANGED <<outcome, raised>>
             ELSE /\ pc' = "finally"
                  /\ outcome' = "raised"
                  /\ raised' = MsgWebDriver
                  /\ UNCHANGED navRet
    /\ UNCHANGED <<login_required, wait_time, cancelled, sawCancelled>>
    /\ UNCHANGED countVars
    /\ UNCHANGED runVars
    /\ apiUntouched

\* where the run continues when navigate_to_candidate_list returns
AfterNavigate(site) ==
    CASE site = "first" -> "enumerate"
      [] site = "retry" -> "enumerate_retry"
      [] OTHER -> "next_candidate"

\* navigate_to_candidate_list, lines 243-252: driver.get and the first
\* check_login_required (which answers False when it fails itself)
nav_get ==
    /\ pc = "nav_get"
    /\ \/ /\ DriverAlive
          /\ \E b \in BOOLEAN : login_required' = b
          /\ pc' = "nav_branch"
          /\ UNCHANGED raised
       \/ /\ pc' = "nav_raise"
          /\ raised' = MsgWebDriver
          /\ UNCHANGED login_required
    /\ UNCHANGED <<navRet, wait_time, driver, cancelled, outcome, sawCancelled>>
    /\ UNCHANGED countVars
    /\ UNCHANGED runVars
    /\ apiUntouched

\* mutant: the headless fail-fast test is missing
CredentialsRequired_Never(use_headless, hasCookies) == FALSE

\* `if use_headless and not self.cookies`
CredentialsRequired(use_headless, hasCookies) == use_headless /\ ~hasCookies

\* navigate_to_candidate_list, lines 254-294: the branch on login_required
nav_branch ==
    /\ pc = "nav_branch"
    /\ IF ~login_required
       THEN /\ pc' = AfterNavigate(navRet)
            /\ navRet' = "none"
            /\ UNCHANGED <<raised, wait_time>>
       ELSE IF CredentialsRequired(headless, cookies)
       THEN /\ pc' = "nav_raise"
            /\ raised' = MsgNoCookies
            /\ UNCHANGED <<wait_time, navRet>>
       ELSE IF ~headless
       THEN /\ pc' = "wait_for_login"
            /\ wait_time' = 0
            /\ UNCHANGED <<raised, navRet>>
       ELSE /\ pc' = "nav_reload"
            /\ UNCHANGED <<raised, wait_time, navRet>>
    /\ login_required' = FALSE
    /\ UNCHANGED <<driver, cancelled, outcome, sawCancelled>>
    /\ UNCHANGED countVars
    /\ UNCHANGED runVars
    /\ apiUntouched

\* wait_for_login: one turn of the polling loop
wait_for_login ==
    /\ pc = "wait_for_login"
    /\ IF wait_time < max_wait
       THEN IF cancelled
            THEN /\ pc' = "nav_raise"
                 /\ raised' = MsgLoginTimeout
                 /\ wait_time' = 0
            ELSE /\ \E still \in BOOLEAN :
                       /\ (~DriverAlive) => ~still
                       /\ pc' = IF still THEN "wait_for_login" ELSE "nav_verify"
                       /\ wait_time' = IF still THEN wait_time + check_interval ELSE 0
                 /\ UNCHANGED raised
       ELSE /\ pc' = "nav_raise"
            /\ raised' = MsgLoginTimeout
            /\ wait_time' = 0
    /\ UNCHANGED <<navRet, login_required, driver, cancelled, outcome, sawCancelled>>
    /\ UNCHANGED countVars
    /\ UNCHANGED runVars
    /\ apiUntouched

\* headless with cookies: reload and check again (lines 276-283)
nav_reload ==
    /\ pc = "nav_reload"
    /\ \/ /\ DriverAlive
          /\ \E still \in BOOLEAN :
                IF still
                THEN /\ pc' = "nav_raise"
                     /\ raised' = MsgInvalidCookies
                ELSE /\ pc' = "nav_verify"
                     /\ UNCHANGED raised
       \/ /\ pc' = "nav_raise"
          /\ raised' = MsgWebDriver
    /\ UNCHANGED <<navRet, login_required, wait_time, driver, cancelled, outcome,
                   sawCancelled>>
    /\ UNCHANGED countVars
    /\ UNCHANGED runVars
    /\ apiUntouched

\* navigate again after login and verify (lines 284-292)
nav_verify ==
    /\ pc = "nav_verify"
    /\ \/ /\ DriverAlive
          /\ \E still \in BOOLEAN :
                IF still
                THEN /\ pc' = "nav_raise"
                     /\ raised' = MsgLoginVerification
                     /\ UNCHANGED navRet
                ELSE /\ pc' = AfterNavigate(navRet)
                     /\ navRet' = "none"
                     /\ UNCHANGED raised
       \/ /\ pc' = "nav_raise"
          /\ raised' = MsgWebDriver
          /\ UNCHANGED navRet
    /\ UNCHANGED <<login_required, wait_time, driver, cancelled, outcome, sawCancelled>>
    /\ UNCHANGED countVars
    /\ UNCHANGED runVars
    /\ apiUntouched

\* mutant: the re-navigation of line 936 sits outside the per-candidate try
CaughtInLoop_HandlerOnly(site) == site = "handler"

\* the call sites of navigate_to_candidate_list that sit inside the
\* per-candidate try (line 936) or inside its handler (line 947)
CaughtInLoop(site) == site \in {"renav", "handler"}

\* an exception leaves navigate_to_candidate_list
nav_raise ==
    /\ pc = "nav_raise"
    /\ IF ~CaughtInLoop(navRet)
       THEN /\ pc' = "finally"
            /\ outcome' = "raised"
            /\ navRet' = "none"
            /\ UNCHANGED <<raised, failed_count>>
       ELSE IF navRet = "renav"
       THEN /\ failed_count' = failed_count + 1
            /\ pc' = "nav_get"
            /\ navRet' = "handler"
            /\ raised' = NoMsg
            /\ UNCHANGED outcome
       ELSE /\ pc' = "next_candidate"
            /\ navRet' = "none"
            /\ raised' = NoMsg
            /\ UNCHANGED <<outcome, failed_count>>
    /\ UNCHANGED <<login_required, wait_time, driver, cancelled, sawCancelled,
                   downloaded_count, downloaded_candidate_ids>>
    /\ UNCHANGED runVars
    /\ apiUntouched

\* mutant: the retry is taken after every empty enumeration
FirstAttempt_Always(at) == TRUE

\* only the enumeration of line 896 is followed by the retry of lines 898-904
FirstAttempt(at) == at = "enumerate"

\* get_candidate_links: the page's elements are read, deduplicated, filtered
\* and normalized; any exception inside gives [] and leaves all_candidate_ids
get_candidate_links ==
    /\ pc \in {"enumerate", "enumerate_retry"}
    /\ \E page \in Pages, raises \in BOOLEAN :
          /\ raises => page = <<>>
          /\ (~DriverAlive) => raises
          /\ candidate_links' = IF raises THEN <<>> ELSE normalized_links(page)
          /\ all_candidate_ids' = IF raises THEN all_candidate_ids ELSE candidate_ids(page)
    /\ IF candidate_links' # <<>>
       THEN /\ pc' = "loop_top"
            /\ i' = 1
            /\ UNCHANGED <<navRet, outcome>>
       ELSE IF FirstAttempt(pc)
       THEN /\ pc' = "nav_get"
            /\ navRet' = "retry"
            /\ UNCHANGED <<i, outcome>>
       ELSE /\ pc' = "finally"
            /\ outcome' = "empty_return"
            /\ UNCHANGED <<i, navRet>>
    /\ UNCHANGED <<login_required, wait_time, driver, cancelled, raised,
                   sawCancelled, attempted>>
    /\ UNCHANGED countVars
    /\ apiUntouched

\* mutant: the loop never looks at the flag
StopRequested_Ignored(flag) == FALSE

\* `if self.cancelled: return` at the top of the per-candidate loop
StopRequested(flag) == flag

loop_top ==
    /\ pc = "loop_top"
    /\ IF StopRequested(cancelled)
       THEN /\ pc' = "finally"
            /\ outcome' = "cancel_return"
       ELSE /\ pc' = "fetch"
            /\ UNCHANGED outcome
    /\ UNCHANGED <<navRet, login_required, wait_time, driver, cancelled, raised,
                   sawCancelled>>
    /\ UNCHANGED countVars
    /\ UNCHANGED runVars
    /\ apiUntouched

\* outcomes of download_resume_from_profile; every one but "success" is
\* caught inside it and counted in failed_count
FetchResults == {"success", "document_not_found", "trigger_failed",
                 "verification_failed", "timeout", "error"}

download_resume_from_profile ==
    /\ pc = "fetch"
    /\ LET link == candidate_links[i] IN
       \E r \in FetchResults :
          /\ (~link.profile \/ ~DriverAlive) => r = "error"
          /\ IF r = "success"
             THEN /\ downloaded_count' = downloaded_count + 1
                  /\ downloaded_candidate_ids' = downloaded_candidate_ids \cup {link.id}
                  /\ UNCHANGED failed_count
             ELSE /\ failed_count' = failed_count + 1
                  /\ UNCHANGED <<downloaded_count, downloaded_candidate_ids>>
          /\ attempted' = Append(attempted, [id |-> link.id, ok |-> r = "success"])
    /\ IF i < Len(candidate_links)
       THEN /\ pc' = "nav_get"
            /\ navRet' = "renav"
       ELSE /\ pc' = "next_candidate"
            /\ UNCHANGED navRet
    /\ UNCHANGED <<login_required, wait_time, driver, cancelled, raised,
                   sawCancelled, outcome, all_candidate_ids, candidate_links, i>>
    /\ apiUntouched

\* the for loop advances, or is exhausted
next_candidate ==
    /\ pc = "next_candidate"
    /\ IF i < Len(candidate_links)
       THEN /\ i' = i + 1
            /\ pc' = "loop_top"
       ELSE /\ pc' = "summary"
            /\ UNCHANGED i
    /\ UNCHANGED <<navRet, login_required, wait_time, driver, cancelled, raised,
                   sawCancelled, outcome, all_candidate_ids, candidate_links, attempted>>
    /\ UNCHANGED countVars
    /\ apiUntouched

\* mutant: the downloaded IDs are not taken out
missing_candidates_NotSubtracted == all_candidate_ids

\* missing_candidates = all_candidate_ids - downloaded_candidate_ids
missing_candidates == all_candidate_ids \ downloaded_candidate_ids

\* the final summary lines (951-996)
summary ==
    /\ pc = "summary"
    /\ pc' = "finally"
    /\ outcome' = "summary"
    /\ UNCHANGED <<navRet, login_required, wait_time, driver, cancelled, raised,
                   sawCancelled>>
    /\ UNCHANGED countVars
    /\ UNCHANGED runVars
    /\ apiUntouched

\* mutant: the browser is closed at the end of the try block, not in finally
driver_after_finally_OnSummaryOnly(d, how) ==
    IF d # "none" /\ how = "summary" THEN "quit" ELSE d

\* `finally: if self.driver: self.driver.quit()`
driver_after_finally(d, how) == IF d # "none" THEN "quit" ELSE d

finally ==
    /\ pc = "finally"
    /\ driver' = driver_after_finally(driver, outcome)
    /\ pc' = "wrap_check"
    /\ UNCHANGED <<navRet, login_required, wait_time, cancelled, raised,
                   sawCancelled, outcome>>
    /\ UNCHANGED countVars
    /\ UNCHANGED runVars
    /\ apiUntouched

\* download_with_progress reads downloader.cancelled (lines 229, 252)
wrap_check ==
    /\ pc = "wrap_check"
    /\ sawCancelled' = cancelled
    /\ pc' = "wrap_write"
    /\ UNCHANGED <<navRet, login_required, wait_time, driver, cancelled, raised, outcome>>
    /\ UNCHANGED countVars
    /\ UNCHANGED runVars
    /\ apiUntouched

\* mutant: the except branch forgets to write FAILED
ExceptionStatus_NoFailedWrite(wasCancelled, msg) ==
    IF wasCancelled THEN CANCELLED
    ELSE IF Contains(msg, "LOGIN_REQUIRED") THEN LOGIN_REQUIRED
    ELSE IN_PROGRESS

\* the status written by the except branch of download_with_progress
ExceptionStatus(wasCancelled, msg) ==
    IF wasCancelled THEN CANCELLED
    ELSE IF Contains(msg, "LOGIN_REQUIRED") THEN LOGIN_REQUIRED
    ELSE FAILED

\* download_with_progress writes the record (lines 230-248, 253-265)
wrap_write ==
    /\ pc = "wrap_write"
    /\ IF outcome = "raised"
       THEN /\ status' = ExceptionStatus(sawCancelled, raised)
            /\ error' = IF sawCancelled THEN error ELSE raised
            /\ UNCHANGED stats
       ELSE IF sawCancelled
       THEN /\ status' = CANCELLED
            /\ UNCHANGED <<stats, error>>
       ELSE /\ stats' = <<[saved |-> downloaded_count,
                           failed |-> failed_count,
                           total_found |-> Cardinality(all_candidate_ids),
                           total_downloaded |-> Cardinality(downloaded_candidate_ids)]>>
            /\ status' = COMPLETED
            /\ UNCHANGED error
    /\ pc' = "done"
    /\ sawCancelled' = FALSE
    /\ UNCHANGED <<dlCookies, active_downloaders, active_futures, future, taskPc,
                   cancelPc, headless, cookies, pureVars>>
    /\ UNCHANGED <<navRet, login_required, wait_time, driver, cancelled, raised, outcome>>
    /\ UNCHANGED countVars
    /\ UNCHANGED runVars

\* ------------------------------------------------------------------------
\* Specification
\* ------------------------------------------------------------------------
CookieInputs == {"none", "empty", "some"}

Worker ==
    \/ setup_driver
    \/ nav_get
    \/ nav_branch
    \/ wait_for_login
    \/ nav_reload
    \/ nav_verify
    \/ nav_raise
    \/ get_candidate_links
    \/ loop_top
    \/ download_resume_from_profile
    \/ next_candidate
    \/ summary
    \/ finally
    \/ wrap_check
    \/ wrap_write

EventLoop ==
    \/ \E c \in CookieInputs : start_download("job", c)
    \/ \E e \in BOOLEAN, r \in BOOLEAN : run_download_start(e, r)
    \/ future_done
    \/ run_download_resume

Next ==
    \/ Worker
    \/ EventLoop
    \/ cancel_download_mark
    \/ cancel_download_stop

Spec == Init /\ [][Next]_vars

FairSpec == Spec /\ WF_vars(Worker) /\ WF_vars(EventLoop) /\ WF_vars(cancel_download_stop)

TypeOK ==
    /\ status \in {NoDownload, PENDING, IN_PROGRESS} \cup Terminal
    /\ driver \in {"none", "open", "quit"}
    /\ wait_time \in 0..max_wait
    /\ downloaded_count \in 0..MaxElems
    /\ i \in 0..MaxElems

\* ------------------------------------------------------------------------
\* Properties
\* ------------------------------------------------------------------------
Successes(h) == Cardinality({k \in 1..Len(h) : h[k].ok})
Failures(h) == Cardinality({k \in 1..Len(h) : ~h[k].ok})
RunLeft == pc \in {"finally", "wrap_check", "wrap_write", "done"}
AfterFinally == pc \in {"wrap_check", "wrap_write", "done"}

\* C1: in every reachable state of a run the downloaded candidate IDs are a
\* subset of the found candidate IDs, so uniqueDownloaded <= uniqueFound.
C1_DownloadedSubsetOfFound ==
    /\ downloaded_candidate_ids \subseteq all_candidate_ids
    /\ Cardinality(downloaded_candidate_ids) <= Cardinality(all_candidate_ids)

C1_Witness ==
    /\ downloaded_candidate_ids # {}
    /\ downloaded_candidate_ids # all_candidate_ids
    /\ pc = "done"

\* C2: absent cancellation, once enumeration returned n > 0 candidates, each
\* of them is fetched exactly once in discovery order whatever the outcomes
\* (a raising re-navigation included), and the run reaches the summary.
C2_FetchesFollowLinks ==
    /\ Len(attempted) <= Len(candidate_links)
    /\ \A k \in 1..Len(attempted) : attempted[k].id = candidate_links[k].id
    /\ (RunLeft /\ candidate_links # <<>> /\ ~cancelled)
          => (outcome = "summary" /\ Len(attempted) = Len(candidate_links))

C2_NoCandidateAbortsRun ==
    /\ []C2_FetchesFollowLinks
    /\ (pc = "loop_top" /\ i = 1) ~> (outcome = "summary" \/ cancelled)

C2_Witness ==
    /\ pc = "done"
    /\ outcome = "summary"
    /\ ~cancelled
    /\ Len(attempted) >= 2
    /\ failed_count > Failures(attempted)

\* C3: when the flag is set as the loop reaches its top for the next
\* candidate, no further candidate is fetched, downloaded_count stays the
\* number of successes so far, and the download is reported cancelled.
C3_StopAtLoopTop ==
    (pc = "loop_top" /\ cancelled)
        => /\ attempted' = attempted
           /\ downloaded_count' = downloaded_count
           /\ pc' \in {"loop_top", "finally"}
           /\ pc' = "finally" => outcome' = "cancel_return"

C3_AfterStop ==
    outcome = "cancel_return"
        => /\ Len(attempted) = i - 1
           /\ downloaded_count = Successes(attempted)
           /\ status = CANCELLED

C3_CancelledAtLoopTop == [][C3_StopAtLoopTop]_vars /\ []C3_AfterStop

C3_Witness ==
    /\ pc = "done"
    /\ outcome = "cancel_return"
    /\ Len(attempted) = 1
    /\ attempted[1].ok
    /\ Len(candidate_links) >= 2
    /\ downloaded_count = 1
    /\ status = CANCELLED

\* C4: every run that created the browser session has closed it when
\* download_all_resumes is left, on every path.
C4_SessionReleased == AfterFinally => driver # "open"

C4_Witness ==
    /\ pc = "done"
    /\ outcome = "raised"
    /\ ~cancelled
    /\ driver = "quit"

\* C5: headless without cookies, the login-requiring page makes
\* navigate_to_candidate_list raise at once, the login wait is never
\* entered, and the run ends failed with the session released and nothing
\* processed.
C5_RaisesAtOnce ==
    (pc = "nav_branch" /\ login_required /\ headless /\ ~cookies /\ pc' # pc)
        => (pc' = "nav_raise" /\ raised' = MsgNoCookies)

C5_RunFailedUntouched ==
    /\ (headless /\ ~cookies) => pc # "wait_for_login"
    /\ (AfterFinally /\ raised = MsgNoCookies)
          => /\ outcome = "raised"
             /\ driver = "quit"
             /\ attempted = <<>>
             /\ downloaded_count = 0
             /\ failed_count = 0
    /\ (pc = "done" /\ raised = MsgNoCookies /\ ~cancelled) => status = FAILED

C5_HeadlessFailsFast == [][C5_RaisesAtOnce]_vars /\ []C5_RunFailedUntouched

C5_Witness ==
    /\ pc = "done"
    /\ headless
    /\ ~cookies
    /\ raised = MsgNoCookies
    /\ status = FAILED
    /\ driver = "quit"

\* C6: under fairness every started download reaches a terminal status; it
\* does not stay pending or in_progress forever.
C6_ReachesTerminal == (status \in {PENDING, IN_PROGRESS}) ~> (status \in Terminal)

C6_Witness ==
    /\ status \in Terminal
    /\ pc = "done"
    /\ taskPc = "done"

\* C7: whenever the download is in a terminal status its record carries the
\* summary counters (stats), for failed and cancelled runs as well.
C7_TerminalCarriesStats ==
    (status \in Terminal /\ pc = "done")
        => /\ stats # <<>>
           /\ stats[1].saved = downloaded_count
           /\ stats[1].failed = failed_count
           /\ stats[1].total_found = Cardinality(all_candidate_ids)

\* C8: when the run fails because authentication is needed, the download's
\* status becomes login_required rather than failed.
C8_AuthFailureIsLoginRequired ==
    (pc = "done" /\ outcome = "raised" /\ ~cancelled /\ cancelPc = "idle"
        /\ raised \in {MsgNoCookies, MsgInvalidCookies})
        => status = LOGIN_REQUIRED

\* C9: two empty enumerations end the download with status failed, not
\* completed.
C9_EmptyEnumerationFails ==
    (pc = "done" /\ outcome = "empty_return" /\ ~cancelled /\ cancelPc = "idle")
        => status = FAILED

\* C10: an authentication failure raised by navigate_to_candidate_list aborts
\* the run wherever it occurs; it is not absorbed as a candidate's failure.
AuthenticationMsgs == {MsgNoCookies, MsgInvalidCookies, MsgLoginTimeout}

C10_AuthFailureAborts ==
    [][(pc = "nav_raise" /\ raised \in AuthenticationMsgs /\ ~cancelled /\ pc' # pc)
          => (pc' = "finally" /\ outcome' = "raised")]_vars


\* ------------------------------------------------------------------------
\* download_resume_from_profile: the click and verify_download
\* ------------------------------------------------------------------------
verify_wait_time == 10
checks_per_second == 2

\* what no step of a fetch touches
fetchFrame == UNCHANGED <<apiVars, envVars, navVars, runVars, pc, driver, cancelled,
                          outcome, raised, sawCancelled, loggingVars, scrollVars,
                          callVars, rateVars>>

verifyFrame == fetchFrame /\ UNCHANGED <<countVars, locateVars>>

\* the file names of self.output_dir
get_downloaded_files == {n \in Names : output_dir[n] # "absent"}

\* a candidate's fetch begins; earlier fetches left their files in the directory
InitVerify ==
    /\ headless = FALSE
    /\ ProgramIdle
    /\ InitLogging
    /\ IdleScroll
    /\ IdleCall
    /\ IdleRate
    /\ vpc = "navigate"
    /\ strategy = 1
    /\ file_element = 0
    /\ consulted = <<>>
    /\ clicks = <<>>
    /\ phases = <<>>
    /\ output_dir \in {[n \in Names |-> IF n <= k THEN "data" ELSE "absent"] : k \in 0..MaxFiles}
    /\ newest = Cardinality({n \in Names : output_dir[n] # "absent"})
    /\ chrome_downloads \in {"absent", "empty", "data"}
    /\ initial_files = {}
    /\ elapsed = 0
    /\ downloaded_files = <<>>
    /\ verified = FALSE
    /\ at_trigger = {}

\* self.driver.get(candidate_url) and the wait for the Documents section
navigate_to_profile(raises) ==
    /\ vpc = "navigate"
    /\ phases' = Append(phases, "navigate")
    /\ IF raises
       THEN /\ vpc' = "returned"
            /\ failed_count' = failed_count + 1
       ELSE /\ vpc' = "locate"
            /\ UNCHANGED failed_count
    /\ UNCHANGED <<output_dir, newest, chrome_downloads, initial_files, elapsed,
                   downloaded_files, verified, at_trigger, strategy, file_element,
                   consulted, clicks, downloaded_count, downloaded_candidate_ids>>
    /\ fetchFrame

last_strategy == 7
last_in_try == 5

\* mutant: every strategy runs, whatever the earlier ones produced
NotFoundYet_Always(elem) == TRUE

\* `if not file_element`
NotFoundYet(elem) == elem = 0

\* one strategy of the cascade: it produces an element, nothing, or raises
locate(result) ==
    /\ vpc = "locate"
    /\ strategy <= last_strategy
    /\ IF NotFoundYet(file_element)
       THEN /\ consulted' = Append(consulted, [strategy |-> strategy, result |-> result])
            /\ phases' = IF strategy = 1 THEN Append(phases, "locate") ELSE phases
            /\ file_element' = IF result = "element" THEN strategy ELSE file_element
            /\ strategy' = IF result = "raises" /\ strategy <= last_in_try
                           THEN last_in_try + 1 ELSE strategy + 1
       ELSE /\ result = "none"
            /\ strategy' = strategy + 1
            /\ UNCHANGED <<file_element, consulted, phases>>
    /\ UNCHANGED <<vpc, output_dir, newest, chrome_downloads, initial_files, elapsed,
                   downloaded_files, verified, at_trigger, clicks>>
    /\ UNCHANGED countVars
    /\ fetchFrame

\* `if file_element:` ... `else:` failed_count += 1; return False
locate_done ==
    /\ vpc = "locate"
    /\ strategy > last_strategy
    /\ IF file_element # 0
       THEN /\ vpc' = "located"
            /\ UNCHANGED failed_count
       ELSE /\ vpc' = "returned"
            /\ failed_count' = failed_count + 1
    /\ UNCHANGED <<output_dir, newest, chrome_downloads, initial_files, elapsed,
                   downloaded_files, verified, at_trigger, locateVars,
                   downloaded_count, downloaded_candidate_ids>>
    /\ fetchFrame

\* mutant: the JavaScript click is made after every direct click
NeedsScriptClick_Always(direct_ok) == TRUE

\* `except Exception:` around file_element.click()
NeedsScriptClick(direct_ok) == ~direct_ok

\* scrollIntoView, file_element.click(), then the JavaScript click; a raise
\* that is not caught here ends the fetch at `except Exception` (line 875)
click_download(scrolled, direct_ok, script_ok) ==
    /\ vpc = "located"
    /\ phases' = Append(phases, "trigger")
    /\ LET direct == <<[how |-> "direct", ok |-> direct_ok]>>
           made == IF ~scrolled THEN <<>>
                   ELSE IF NeedsScriptClick(direct_ok)
                   THEN Append(direct, [how |-> "script", ok |-> script_ok])
                   ELSE direct
       IN /\ clicks' = made
          /\ IF made # <<>> /\ made[Len(made)].ok
             THEN /\ vpc' = "triggered"
                  /\ at_trigger' = get_downloaded_files
                  /\ UNCHANGED failed_count
             ELSE /\ vpc' = "returned"
                  /\ failed_count' = failed_count + 1
                  /\ UNCHANGED at_trigger
    /\ UNCHANGED <<output_dir, newest, chrome_downloads, initial_files, elapsed,
                   downloaded_files, verified, strategy, file_element, consulted,
                   downloaded_count, downloaded_candidate_ids>>
    /\ fetchFrame

Downloading == vpc \in {"triggered", "polling", "count_check", "chrome_check"}

\* the browser writes the triggered download into the configured directory
browser_saves(n, size) ==
    /\ Downloading
    /\ n \notin at_trigger
    /\ output_dir[n] # "data"
    /\ output_dir[n] # size
    /\ output_dir' = [output_dir EXCEPT ![n] = size]
    /\ newest' = n
    /\ UNCHANGED <<vpc, chrome_downloads, initial_files, elapsed, downloaded_files,
                   verified, at_trigger>>
    /\ verifyFrame

\* the browser ignores the configured directory and writes to ~/Downloads
browser_saves_to_downloads(size) ==
    /\ Downloading
    /\ chrome_downloads # "data"
    /\ chrome_downloads # size
    /\ chrome_downloads' = size
    /\ UNCHANGED <<vpc, output_dir, newest, initial_files, elapsed, downloaded_files,
                   verified, at_trigger>>
    /\ verifyFrame

\* initial_files = set(self.get_downloaded_files())
verify_download_enter ==
    /\ vpc = "triggered"
    /\ phases' = Append(phases, "verify")
    /\ initial_files' = get_downloaded_files
    /\ elapsed' = 0
    /\ vpc' = "polling"
    /\ consulted' = <<>>
    /\ clicks' = <<>>
    /\ UNCHANGED <<output_dir, newest, chrome_downloads, downloaded_files, verified,
                   at_trigger, strategy, file_element>>
    /\ UNCHANGED countVars
    /\ fetchFrame

\* one pass of `while time.time() - start_time < wait_time`
verify_download_poll ==
    /\ vpc = "polling"
    /\ IF elapsed < verify_wait_time * checks_per_second
       THEN LET new_files == get_downloaded_files \ initial_files
            IN IF \E f \in new_files : output_dir[f] = "data"
               THEN \E f \in new_files :
                        /\ output_dir[f] = "data"
                        /\ downloaded_files' = Append(downloaded_files, f)
                        /\ verified' = TRUE
                        /\ vpc' = "checked"
                        /\ UNCHANGED elapsed
               ELSE /\ elapsed' = elapsed + 1
                    /\ UNCHANGED <<vpc, downloaded_files, verified>>
       ELSE /\ vpc' = "count_check"
            /\ UNCHANGED <<elapsed, downloaded_files, verified>>
    /\ UNCHANGED <<output_dir, newest, chrome_downloads, initial_files, at_trigger>>
    /\ verifyFrame

\* `if final_count > initial_count`: the newest file, when it has a size
verify_download_count ==
    /\ vpc = "count_check"
    /\ IF /\ Cardinality(get_downloaded_files) > Cardinality(initial_files)
          /\ newest # 0
          /\ output_dir[newest] = "data"
       THEN /\ downloaded_files' = Append(downloaded_files, newest)
            /\ verified' = TRUE
            /\ vpc' = "checked"
       ELSE /\ vpc' = "chrome_check"
            /\ UNCHANGED <<downloaded_files, verified>>
    /\ UNCHANGED <<output_dir, newest, chrome_downloads, initial_files, elapsed, at_trigger>>
    /\ verifyFrame

\* check_chrome_downloads_folder and shutil.move of chrome_files[0]
verify_download_chrome(moved) ==
    /\ vpc = "chrome_check"
    /\ IF chrome_downloads # "absent" /\ moved
       THEN \E n \in Names :
                /\ output_dir' = [output_dir EXCEPT ![n] = chrome_downloads]
                /\ chrome_downloads' = "absent"
                /\ downloaded_files' = Append(downloaded_files, n)
                /\ verified' = TRUE
       ELSE UNCHANGED <<output_dir, chrome_downloads, downloaded_files, verified>>
    /\ vpc' = "checked"
    /\ UNCHANGED <<newest, initial_files, elapsed, at_trigger>>
    /\ verifyFrame

\* mutant: the download is counted whatever verify_download answered
VerifiedOnDisk_Always(answer) == TRUE

\* `if self.verify_download():`
VerifiedOnDisk(answer) == answer

\* lines 850-859: the counters after verify_download has returned
count_outcome ==
    /\ vpc = "checked"
    /\ phases' = Append(phases, "done")
    /\ IF VerifiedOnDisk(verified)
       THEN /\ downloaded_count' = downloaded_count + 1
            /\ downloaded_candidate_ids' = downloaded_candidate_ids \cup {1}
            /\ UNCHANGED failed_count
       ELSE /\ failed_count' = failed_count + 1
            /\ UNCHANGED <<downloaded_count, downloaded_candidate_ids>>
    /\ vpc' = "returned"
    /\ UNCHANGED <<output_dir, newest, chrome_downloads, initial_files, elapsed,
                   downloaded_files, verified, at_trigger, strategy, file_element,
                   consulted, clicks>>
    /\ fetchFrame

NextVerify ==
    \/ \E raises \in BOOLEAN : navigate_to_profile(raises)
    \/ \E result \in {"none", "element", "raises"} : locate(result)
    \/ locate_done
    \/ \E scrolled \in BOOLEAN, direct_ok \in BOOLEAN, script_ok \in BOOLEAN :
           click_download(scrolled, direct_ok, script_ok)
    \/ \E n \in Names, size \in {"empty", "data"} : browser_saves(n, size)
    \/ \E size \in {"empty", "data"} : browser_saves_to_downloads(size)
    \/ verify_download_enter
    \/ verify_download_poll
    \/ verify_download_count
    \/ \E moved \in BOOLEAN : verify_download_chrome(moved)
    \/ count_outcome

VerifySpec == InitVerify /\ [][NextVerify]_vars

\* C11: the snapshot that verification compares against holds only files
\* that were in the output directory before the download was triggered, so
\* a file that lands at any moment after the click is new to verification.
C11_SnapshotPrecedesTrigger ==
    vpc \in {"polling", "count_check", "chrome_check", "checked", "returned"}
        => initial_files \subseteq at_trigger

\* C12: verify_download returns True only when the path it recorded is a
\* file of the output directory with a nonzero size that is not in the
\* snapshot; a download that left only a zero-byte file is a failure.
C12_SuccessIsNewNonEmptyFile ==
    (vpc = "returned" /\ verified) =>
        /\ downloaded_files # <<>>
        /\ output_dir[downloaded_files[Len(downloaded_files)]] = "data"
        /\ downloaded_files[Len(downloaded_files)] \notin initial_files


\* ------------------------------------------------------------------------
\* api_server.py: the ProgressHandler of each download on the shared logger
\* ------------------------------------------------------------------------
MaxLogs == 3
MaxNum == 1
kept_entries == 50

loggingFrame == UNCHANGED <<programVars, verifyVars, scrollVars, callVars, rateVars>>

\* the records download_all_resumes logs; `by` names the run whose worker logged it
LogLines ==
    [by : Downloads, kind : {"processing", "downloaded"}, cur : 1..MaxNum, tot : 1..MaxNum]
    \cup [by : Downloads, kind : {"total_found"}, cur : {0}, tot : 0..MaxNum]
    \cup [by : Downloads, kind : {"summary_downloaded"}, cur : 0..MaxNum, tot : {0}]
    \cup [by : Downloads, kind : {"other"}, cur : {0}, tot : {0}]

\* the dict returned for a log line, <<>> for None
parse_progress_from_log(log_line, current_state) ==
    CASE log_line.kind = "processing" -> [current |-> log_line.cur, total |-> log_line.tot]
      [] log_line.kind = "downloaded" -> [current |-> log_line.cur, total |-> log_line.tot]
      [] log_line.kind = "total_found" /\ current_state.total # log_line.tot ->
            [total |-> log_line.tot]
      [] log_line.kind = "summary_downloaded" -> [current |-> log_line.cur]
      [] OTHER -> <<>>

\* ProgressHandler.emit of one download for one record
ProgressHandler_emit(entries, state, record) ==
    LET all == Append(entries, record)
        shown == IF Len(all) <= kept_entries THEN all
                 ELSE SubSeq(all, Len(all) - kept_entries + 1, Len(all))
        withLogs == [state EXCEPT !.logs = shown]
        progress == parse_progress_from_log(record, withLogs)
    IN [f \in DOMAIN withLogs |->
            IF f \in DOMAIN progress THEN progress[f] ELSE withLogs[f]]

\* logger.addHandler(handler) at the start of download_with_progress
addHandler(d) ==
    /\ lpc[d] = "pending"
    /\ lpc' = [lpc EXCEPT ![d] = "running"]
    /\ handlers' = handlers \cup {d}
    /\ UNCHANGED <<log_entries, download_state, emitted>>
    /\ loggingFrame

\* a logger.info(...) of the worker of download d: every attached handler emits
logger_info(d, record) ==
    /\ lpc[d] = "running"
    /\ record.by = d
    /\ emitted < MaxLogs
    /\ emitted' = emitted + 1
    /\ log_entries' = [h \in Downloads |->
            IF h \in handlers THEN Append(log_entries[h], record) ELSE log_entries[h]]
    /\ download_state' = [h \in Downloads |->
            IF h \in handlers
            THEN ProgressHandler_emit(log_entries[h], download_state[h], record)
            ELSE download_state[h]]
    /\ UNCHANGED <<lpc, handlers>>
    /\ loggingFrame

\* download_state["logs"] = log_entries, then logger.removeHandler(handler)
removeHandler(d) ==
    /\ lpc[d] = "running"
    /\ lpc' = [lpc EXCEPT ![d] = "done"]
    /\ download_state' = [download_state EXCEPT ![d].logs = log_entries[d]]
    /\ handlers' = handlers \ {d}
    /\ UNCHANGED <<log_entries, emitted>>
    /\ loggingFrame

NextLogging ==
    \/ \E d \in Downloads : addHandler(d)
    \/ \E d \in Downloads, record \in LogLines : logger_info(d, record)
    \/ \E d \in Downloads : removeHandler(d)

InitTwoDownloads ==
    /\ headless = FALSE
    /\ ProgramIdle
    /\ IdleVerify
    /\ InitLogging
    /\ IdleScroll
    /\ IdleCall
    /\ IdleRate

LoggingSpec == InitTwoDownloads /\ [][NextLogging]_vars

\* C13: two downloads running at the same time in one process do not
\* interfere: every entry of a download's log list was logged by that
\* download's own run.
C13_LogsAreOwn ==
    \A d \in Downloads :
        \A k \in 1..Len(download_state[d].logs) : download_state[d].logs[k].by = d


\* C14: cancellation is cooperative: the browser session of a run is closed
\* by the worker alone, in its finally block; no step of cancel_download
\* closes it while the worker is in the middle of an operation.
C14_OnlyWorkerClosesSession ==
    [][(driver = "open" /\ driver' # "open") => (pc = "finally" /\ pc' = "wrap_check")]_vars


\* ------------------------------------------------------------------------
\* scroll_to_load_all_candidates, called by get_candidate_links
\* ------------------------------------------------------------------------
MaxHeight == 2
max_scroll_attempts == 50

scrollFrame == UNCHANGED <<apiVars, envVars, navVars, countVars, runVars, pc, driver,
                           outcome, raised, sawCancelled, verifyVars, loggingVars,
                           callVars, rateVars>>

\* last_height = document.body.scrollHeight of the page just loaded
InitScroll ==
    /\ headless = FALSE
    /\ ProgramIdle
    /\ IdleVerify
    /\ InitLogging
    /\ IdleCall
    /\ IdleRate
    /\ spc = "loop"
    /\ last_height \in 1..MaxHeight
    /\ scroll_attempts = 0
    /\ no_change_count = 0
    /\ at_top = TRUE
    /\ iterations = 0
    /\ last_change = 0
    /\ exit = "none"

\* mutant: the loop never takes the height for settled
ScrollingComplete_Never(count) == FALSE

\* `if no_change_count >= 3`
ScrollingComplete(count) == count >= 3

\* one test of the while condition and, when it holds, one pass of the body
scroll_pass(new_height, raises) ==
    /\ spc = "loop"
    /\ IF ~(scroll_attempts < max_scroll_attempts)
       THEN /\ spc' = "restore"
            /\ exit' = "cap"
            /\ UNCHANGED <<last_height, scroll_attempts, no_change_count, at_top,
                           iterations, last_change>>
       ELSE IF cancelled
       THEN /\ spc' = "extract"
            /\ exit' = "cancelled"
            /\ UNCHANGED <<last_height, scroll_attempts, no_change_count, at_top,
                           iterations, last_change>>
       ELSE IF raises
       THEN /\ spc' = "raised"
            /\ UNCHANGED <<last_height, scroll_attempts, no_change_count, at_top,
                           iterations, last_change, exit>>
       ELSE /\ at_top' = FALSE
            /\ iterations' = iterations + 1
            /\ IF new_height = last_height
               THEN /\ no_change_count' = no_change_count + 1
                    /\ UNCHANGED last_change
               ELSE /\ no_change_count' = 0
                    /\ last_change' = iterations + 1
            /\ IF new_height = last_height /\ ScrollingComplete(no_change_count + 1)
               THEN /\ spc' = "restore"
                    /\ exit' = "stable"
                    /\ UNCHANGED <<last_height, scroll_attempts>>
               ELSE /\ last_height' = new_height
                    /\ scroll_attempts' = scroll_attempts + 1
                    /\ UNCHANGED <<spc, exit>>
    /\ UNCHANGED cancelled
    /\ scrollFrame

\* window.scrollTo(0, 0) after the loop, then back in get_candidate_links
scroll_back_to_top(raises) ==
    /\ spc = "restore"
    /\ IF raises
       THEN /\ spc' = "raised"
            /\ UNCHANGED at_top
       ELSE /\ spc' = "extract"
            /\ at_top' = TRUE
    /\ UNCHANGED <<last_height, scroll_attempts, no_change_count, iterations,
                   last_change, exit, cancelled>>
    /\ scrollFrame

\* cancel_download sets downloader.cancelled while the worker scrolls
scroll_cancel ==
    /\ spc \in {"loop", "restore"}
    /\ ~cancelled
    /\ cancelled' = TRUE
    /\ UNCHANGED scrollVars
    /\ scrollFrame

NextScroll ==
    \/ \E new_height \in 1..MaxHeight, raises \in BOOLEAN : scroll_pass(new_height, raises)
    \/ \E raises \in BOOLEAN : scroll_back_to_top(raises)
    \/ scroll_cancel

ScrollSpec == InitScroll /\ [][NextScroll]_vars

\* C15: for every sequence of page heights the loop makes at most 50 passes,
\* it stops at the first pass at which the height has been unchanged for 3
\* consecutive passes, and when the height stops changing after k scrolls
\* it stops within k + 3 passes.
C15_ScrollLoopBounded ==
    /\ iterations <= max_scroll_attempts
    /\ no_change_count = iterations - last_change
    /\ spc = "loop" => no_change_count < 3
    /\ exit = "stable" => no_change_count = 3
    /\ iterations <= last_change + 3

C15_Witness ==
    /\ spc = "extract"
    /\ exit = "stable"
    /\ last_change >= 1
    /\ iterations = last_change + 3

\* C16: whenever the scroll loop has been left (height stable, 50 passes
\* made, or cancellation observed) and get_candidate_links goes on to
\* extract the elements, the scroll position is the top of the page.
C16_TopBeforeExtraction ==
    spc = "extract" => at_top


\* ------------------------------------------------------------------------
\* get_candidate_links: the functions it is made of, one call at a time
\* ------------------------------------------------------------------------
callFrame == UNCHANGED <<programVars, verifyVars, loggingVars, scrollVars, rateVars>>

\* The part of the page around a candidate link: the link, its parent, another
\* child of the parent, the grandparent, and another candidate's row under
\* the same grandparent
Nodes == {"element", "parent", "sibling", "grandparent", "other_row"}

ParentOf ==
    [n \in Nodes \cup {"none"} |->
        CASE n \in {"element", "sibling"} -> "parent"
          [] n = "parent" -> "grandparent"
          [] n = "other_row" -> "grandparent"
          [] OTHER -> "none"]

\* what node.find_elements(...) searches
Descendants(node) ==
    {m \in Nodes : node \in {ParentOf[m], ParentOf[ParentOf[m]]}}

\* the WebDriver calls that may raise: the class of the element and the
\* lookup of its parent in the quick check, the search at each level of the loop
Inspections == {"quick_element", "quick_parent", "level_element", "level_parent",
                "level_grandparent"}

\* marked: the nodes with class is-workflow-not-hired;
\* tagged: the workflow tags whose text contains "not hired";
\* raising: the inspections that raise when they are made
Doms == [marked : SUBSET Nodes, tagged : SUBSET Nodes, raising : SUBSET Inspections]

\* the answer of is_candidate_not_hired and whether an inspection raised on the way
inspect_status(dom) ==
    LET find_elements(node, which) == Descendants(node) \cap which # {}
        level(node) == find_elements(node, dom.marked) \/ find_elements(node, dom.tagged)
        raises(step) == step \in dom.raising
        answer(found, sofar) == [not_hired |-> found, erred |-> sofar]
        loop2(sofar) ==
            IF raises("level_grandparent") THEN answer(FALSE, TRUE)
            ELSE answer(level("grandparent"), sofar)
        loop1(sofar) ==
            IF raises("level_parent") THEN answer(FALSE, TRUE)
            ELSE IF level("parent") THEN answer(TRUE, sofar)
            ELSE loop2(sofar)
        loop0(sofar) ==
            IF raises("level_element") THEN answer(FALSE, TRUE)
            ELSE IF level("element") THEN answer(TRUE, sofar)
            ELSE loop1(sofar)
    IN IF raises("quick_element") THEN loop0(TRUE)
       ELSE IF "element" \in dom.marked THEN answer(TRUE, FALSE)
       ELSE IF raises("quick_parent") THEN loop0(TRUE)
       ELSE IF "parent" \in dom.marked THEN answer(TRUE, FALSE)
       ELSE IF find_elements("parent", dom.marked) THEN answer(TRUE, FALSE)
       ELSE loop0(FALSE)

is_candidate_not_hired(dom) == inspect_status(dom).not_hired

call_is_candidate_not_hired ==
    /\ fn = "is_candidate_not_hired"
    /\ ~called
    /\ ret' = is_candidate_not_hired(arg)
    /\ called' = TRUE
    /\ UNCHANGED <<fn, arg>>
    /\ callFrame

\* the selectors tried for candidate links, in the order of the list
selectors ==
    <<"a[href*='/candidate/']", "a[href*='/applicant/']", ".candidate-link",
      ".applicant-link", "[data-candidate-id]", "tr[data-candidate-id] a",
      ".candidate-row a", ".applicant-row a">>

MaxMatch == 1

\* what the page gives for every selector: -1 when find_elements raises, else
\* the number of elements; rows: the links and clickable rows of the fallback
MatchedPages ==
    {m \in [found : [1..Len(selectors) -> -1..MaxMatch], rows : 0..MaxMatch] :
        (\E k \in 1..Len(selectors) : m.found[k] >= 1) => m.rows = 0}

\* the elements of selector k (0: the row fallback), in document order
elements_of(k, n) == [j \in 1..n |-> <<k, j>>]

\* mutant: the first selector that does not raise is adopted, matching or not
Yields_Always(elements) == TRUE

\* `if elements:`
Yields(elements) == elements # <<>>

\* the loop over selectors from position k on
RECURSIVE candidate_elements(_, _)
candidate_elements(found, k) ==
    IF k > Len(selectors) THEN <<>>
    ELSE IF found[k] = -1 THEN candidate_elements(found, k + 1)
    ELSE IF Yields(elements_of(k, found[k])) THEN elements_of(k, found[k])
    ELSE candidate_elements(found, k + 1)

\* lines 421-460: the selector loop, then the rows when it adopted nothing
find_candidate_elements(page) ==
    IF candidate_elements(page.found, 1) # <<>>
    THEN candidate_elements(page.found, 1)
    ELSE elements_of(0, page.rows)

call_find_candidate_elements ==
    /\ fn = "find_candidate_elements"
    /\ ~called
    /\ ret' = find_candidate_elements(arg)
    /\ called' = TRUE
    /\ UNCHANGED <<fn, arg>>
    /\ callFrame

\* lines 462-530: filter, deduplicate and normalize the adopted elements
call_get_candidate_links ==
    /\ fn = "get_candidate_links"
    /\ ~called
    /\ ret' = normalized_links(arg)
    /\ called' = TRUE
    /\ UNCHANGED <<fn, arg>>
    /\ callFrame

\* The href of a candidate element: absolute (starts with http) or not, under
\* the run's job or another one, with the profile endpoint, another one or none
RawLinks ==
    [id : 1..MaxElems, abs : BOOLEAN, job : {"job", "other"},
     suffix : {"profile", "scorecard", "none"}]

\* f"https://app.jazz.co/app/v2/job/{self.job_id}/candidate/{candidate_id}/profile"
profile_url(job_id, candidate_id) ==
    [id |-> candidate_id, abs |-> TRUE, job |-> job_id, suffix |-> "profile"]

\* one pass of `for link in candidate_links` (lines 515-530)
normalize_link(job_id, link) ==
    IF link.abs THEN profile_url(job_id, link.id) ELSE link

call_normalize_link ==
    /\ fn = "normalize_link"
    /\ ~called
    /\ ret' = normalize_link("job", arg)
    /\ called' = TRUE
    /\ UNCHANGED <<fn, arg>>
    /\ callFrame

\* the XPaths looked for on a page that is neither the candidate list nor a login URL
login_indicators ==
    <<"//input[@type='email']", "//input[@type='password']",
      "//button[contains(text(), 'Sign in')]", "//button[contains(text(), 'Log in')]",
      "//a[contains(text(), 'Sign in')]", "//a[contains(text(), 'Log in')]">>

\* A page as check_login_required sees it: whether current_url can be read,
\* whether it has the candidate route of the job, whether it has login or
\* signin in it, and for every indicator "absent" (NoSuchElementException),
\* "hidden", "visible" or "raises" (any other exception)
LoginPages ==
    {p \in [readable : BOOLEAN, route : BOOLEAN, marker : BOOLEAN,
            indicators : [1..Len(login_indicators) ->
                              {"absent", "hidden", "visible", "raises"}]] :
        ~p.readable => (~p.route /\ ~p.marker
                          /\ \A k \in 1..Len(login_indicators) : p.indicators[k] = "absent")}

\* mutant: an element that was found counts as displayed
is_displayed_Always(state) == TRUE

\* element.is_displayed()
is_displayed(state) == state = "visible"

\* the loop over login_indicators from position k on: "found", "none" or "raises"
RECURSIVE find_login_indicator(_, _)
find_login_indicator(indicators, k) ==
    IF k > Len(login_indicators) THEN "none"
    ELSE IF indicators[k] = "absent" THEN find_login_indicator(indicators, k + 1)
    ELSE IF indicators[k] = "raises" THEN "raises"
    ELSE IF is_displayed(indicators[k]) THEN "found"
    ELSE find_login_indicator(indicators, k + 1)

check_login_required(page) ==
    IF ~page.readable THEN FALSE
    ELSE IF page.route THEN FALSE
    ELSE IF page.marker THEN TRUE
    ELSE find_login_indicator(page.indicators, 1) = "found"

call_check_login_required ==
    /\ fn = "check_login_required"
    /\ ~called
    /\ ret' = check_login_required(arg)
    /\ called' = TRUE
    /\ UNCHANGED <<fn, arg>>
    /\ callFrame

\* a candidate list with three candidates, the second one marked not hired
ScenarioPage ==
    <<[id |-> 1, nh |-> FALSE, http |-> TRUE],
      [id |-> 2, nh |-> TRUE, http |-> TRUE],
      [id |-> 3, nh |-> FALSE, http |-> TRUE]>>

\* A run that reaches the summary: the page that get_candidate_links read
\* (with at least one link kept) and the positions of candidate_links whose
\* fetch fails; nothing is cancelled and no navigation fails
CompletedRuns ==
    {r \in [page : Pages \cup {ScenarioPage}, failing : SUBSET (1..(MaxElems + 1))] :
        /\ normalized_links(r.page) # <<>>
        /\ r.failing \subseteq 1..Len(normalized_links(r.page))}

\* the numbers of the "Download Summary" block for such a run
download_summary(run) ==
    LET links == normalized_links(run.page)
        succeeded == {k \in 1..Len(links) : links[k].profile /\ k \notin run.failing}
        ids == candidate_ids(run.page)
        downloaded_ids == {links[k].id : k \in succeeded}
    IN [found |-> Len(links),
        uniqueFound |-> Cardinality(ids),
        downloaded |-> Cardinality(succeeded),
        uniqueDownloaded |-> Cardinality(downloaded_ids),
        failed |-> Len(links) - Cardinality(succeeded),
        missingIds |-> ids \ downloaded_ids]

call_download_summary ==
    /\ fn = "download_summary"
    /\ ~called
    /\ ret' = download_summary(arg)
    /\ called' = TRUE
    /\ UNCHANGED <<fn, arg>>
    /\ callFrame

MaxRetries == 3

\* What the attempts of one _make_request would meet, in order: a response,
\* a requests Timeout, another RequestException, or an exception that is
\* not a RequestException (the loop has no handler for it)
Requests ==
    UNION {[outcomes : [1..n -> {"ok", "timeout", "error", "other"}], max_retries : {n}] :
              n \in 1..MaxRetries}

\* mutant: the last failed attempt waits and falls out of the loop
RetryLeft_Always(attempt, max_retries) == TRUE

\* `if attempt < max_retries - 1`
RetryLeft(attempt, max_retries) == attempt < max_retries - 1

\* the loop `for attempt in range(max_retries)` from one attempt on; waits
\* are the arguments of time.sleep, in order
RECURSIVE attempt_from(_, _, _)
attempt_from(attempt, request, waits) ==
    IF attempt >= request.max_retries
    THEN [attempts |-> attempt, waits |-> waits, result |-> "none"]
    ELSE LET met == request.outcomes[attempt + 1] IN
         IF met = "ok"
         THEN [attempts |-> attempt + 1, waits |-> waits, result |-> "response"]
         ELSE IF met = "other"
         THEN [attempts |-> attempt + 1, waits |-> waits, result |-> "raises"]
         ELSE IF RetryLeft(attempt, request.max_retries)
         THEN attempt_from(attempt + 1, request, Append(waits, 2 ^ attempt))
         ELSE [attempts |-> attempt + 1, waits |-> waits, result |-> "raises"]

make_request(request) == attempt_from(0, request, <<>>)

call_make_request ==
    /\ fn = "make_request"
    /\ ~called
    /\ ret' = make_request(arg)
    /\ called' = TRUE
    /\ UNCHANGED <<fn, arg>>
    /\ callFrame

\* a log line and the download record the handler passes along with it
ParserCalls ==
    [log_line : LogLines,
     current_state : [logs : {<<>>}, current : 0..MaxNum, total : 0..MaxNum]]

call_parse_progress_from_log ==
    /\ fn = "parse_progress_from_log"
    /\ ~called
    /\ ret' = parse_progress_from_log(arg.log_line, arg.current_state)
    /\ called' = TRUE
    /\ UNCHANGED <<fn, arg>>
    /\ callFrame

\* What cancel_download reads and writes for one download ID: the status of
\* the record (NoDownload: the ID is unknown), the registries, the flag and
\* the browser of the registered downloader, the registered future
ServerStates ==
    {sv \in [status : {NoDownload, PENDING, IN_PROGRESS} \cup Terminal,
             active_downloaders : BOOLEAN, cancelled : BOOLEAN,
             driver : {"none", "open", "quit"},
             active_futures : BOOLEAN, future : {"none", "pending", "done", "cancelled"}] :
        /\ sv.status \in {NoDownload, PENDING} =>
               (~sv.active_downloaders /\ ~sv.active_futures /\ sv.driver = "none"
                    /\ ~sv.cancelled /\ sv.future = "none")
        /\ sv.active_futures => sv.future # "none"}

\* cancel_download as one call on the event loop
cancel_download(sv) ==
    IF ~Cancellable(sv.status) THEN sv
    ELSE [status |-> CANCELLED,
          cancelled |-> IF sv.active_downloaders THEN TRUE ELSE sv.cancelled,
          driver |-> IF sv.active_downloaders /\ sv.driver # "none" THEN "quit" ELSE sv.driver,
          future |-> IF sv.active_futures /\ sv.future = "pending" THEN "cancelled"
                     ELSE sv.future,
          active_downloaders |-> FALSE,
          active_futures |-> FALSE]

call_cancel_download ==
    /\ fn = "cancel_download"
    /\ ~called
    /\ ret' = cancel_download(arg)
    /\ called' = TRUE
    /\ UNCHANGED <<fn, arg>>
    /\ callFrame

MaxPages == 3
page_size == 100

\* What the API answers for the pages 1, 2, ... of an endpoint: the number
\* of items of the page, or -1 when _make_request raises after its retries;
\* the pages after the last one listed are empty
Endpoints == UNION {[1..n -> {-1, 0, 1, page_size}] : n \in 0..MaxPages}

\* the items of a page: the page number and the position on the page
page_items(page, n) == [k \in 1..n |-> <<page, k>>]

\* mutant: a short page is not taken for the last one
LastPage_Never(n) == FALSE

\* `if len(results) < 100`
LastPage(n) == n < page_size

\* the `while True` loop from one page on; requested is the last page asked for
RECURSIVE paginate_from(_, _, _)
paginate_from(endpoint, page, all_results) ==
    LET n == IF page \in DOMAIN endpoint THEN endpoint[page] ELSE 0 IN
    IF n = -1 \/ n = 0
    THEN [results |-> all_results, requested |-> page]
    ELSE IF LastPage(n)
    THEN [results |-> all_results \o page_items(page, n), requested |-> page]
    ELSE paginate_from(endpoint, page + 1, all_results \o page_items(page, n))

paginate_request(endpoint) == paginate_from(endpoint, 1, <<>>)

call_paginate_request ==
    /\ fn = "paginate_request"
    /\ ~called
    /\ ret' = paginate_request(arg)
    /\ called' = TRUE
    /\ UNCHANGED <<fn, arg>>
    /\ callFrame

InitCall ==
    /\ headless = FALSE
    /\ ProgramIdle
    /\ IdleVerify
    /\ InitLogging
    /\ IdleScroll
    /\ IdleRate
    /\ called = FALSE
    /\ ret = <<>>
    /\ \/ fn = "is_candidate_not_hired" /\ arg \in Doms
       \/ fn = "find_candidate_elements" /\ arg \in MatchedPages
       \/ fn = "get_candidate_links" /\ arg \in Pages
       \/ fn = "normalize_link" /\ arg \in RawLinks
       \/ fn = "check_login_required" /\ arg \in LoginPages
       \/ fn = "download_summary" /\ arg \in CompletedRuns
       \/ fn = "make_request" /\ arg \in Requests
       \/ fn = "parse_progress_from_log" /\ arg \in ParserCalls
       \/ fn = "cancel_download" /\ arg \in ServerStates
       \/ fn = "paginate_request" /\ arg \in Endpoints

NextCall ==
    \/ call_is_candidate_not_hired
    \/ call_find_candidate_elements
    \/ call_get_candidate_links
    \/ call_normalize_link
    \/ call_check_login_required
    \/ call_download_summary
    \/ call_make_request
    \/ call_parse_progress_from_log
    \/ call_cancel_download
    \/ call_paginate_request

CallSpec == InitCall /\ [][NextCall]_vars

\* ------------------------------------------------------------------------
\* JazzHRAPI._rate_limit: the calls of one client over time
\* ------------------------------------------------------------------------
RATE_LIMIT_CALLS == 80
RATE_LIMIT_WINDOW == 60
MaxClock == 130
Pause == 30
Oversleep == 29

rateFrame == UNCHANGED <<programVars, verifyVars, loggingVars, scrollVars, callVars>>

InitRate ==
    /\ headless = FALSE
    /\ ProgramIdle
    /\ IdleVerify
    /\ InitLogging
    /\ IdleScroll
    /\ IdleCall
    /\ IdleRate

\* mutant: the limit is never found reached
LimitReached_Never(n) == FALSE

\* `if len(self.call_times) >= self.RATE_LIMIT_CALLS`
LimitReached(n) == n >= RATE_LIMIT_CALLS

\* `[t for t in self.call_times if now - t < self.RATE_LIMIT_WINDOW]`
RECURSIVE recent_calls(_, _)
recent_calls(times, now) ==
    IF times = <<>> THEN <<>>
    ELSE IF now - times[1] < RATE_LIMIT_WINDOW
    THEN <<times[1]>> \o recent_calls(Tail(times), now)
    ELSE recent_calls(Tail(times), now)

\* the requests made less than RATE_LIMIT_WINDOW seconds before a time
LastWindow(times, now) ==
    LET in_window(t) == now - t < RATE_LIMIT_WINDOW IN SelectSeq(times, in_window)

\* time passes between two requests of the client
time_passes ==
    /\ clock + Pause <= MaxClock
    /\ clock' = clock + Pause
    /\ issued' = LastWindow(issued, clock')
    /\ UNCHANGED <<call_times, waited>>
    /\ rateFrame

\* _rate_limit, followed by the request it guards; time.sleep may return late
rate_limit(late) ==
    /\ clock <= MaxClock
    /\ LET now == clock
           pruned == recent_calls(call_times, now)
           sleep_time == IF LimitReached(Len(pruned))
                         THEN RATE_LIMIT_WINDOW - (now - pruned[1]) + 1
                         ELSE 0
           sleeps == sleep_time > 0
           after == IF sleeps THEN now + sleep_time + late ELSE now
           cleaned == IF sleeps THEN recent_calls(pruned, after) ELSE pruned
       IN /\ late > 0 => sleeps
          /\ clock' = after
          /\ waited' = sleep_time
          /\ call_times' = Append(cleaned, after)
          /\ issued' = Append(LastWindow(issued, after), after)
    /\ rateFrame

NextRate ==
    \/ time_passes
    \/ \E late \in {0, Oversleep} : rate_limit(late)

RateSpec == InitRate /\ [][NextRate]_vars

\* C17: the status filter decides by the element's own ancestor chain: an
\* element with no marker on itself, its parent or its grandparent (nor on
\* another child of its parent) is included, also when another candidate's
\* row of the page carries the marker.
C17_OtherRowsDoNotExclude ==
    (fn = "is_candidate_not_hired" /\ called
        /\ (arg.marked \cup arg.tagged) \subseteq {"other_row"}) => ret = FALSE


\* C18: extraction adopts the first selector, in the order of the list, that
\* yields at least one element and uses exactly the elements of that
\* selector: nothing of a later selector is merged in.
C18_FirstYieldingSelector ==
    (fn = "find_candidate_elements" /\ called) =>
        \A p \in 1..Len(selectors) :
            (arg.found[p] >= 1 /\ \A q \in 1..(p - 1) : arg.found[q] <= 0)
                => ret = elements_of(p, arg.found[p])

C18_Witness ==
    /\ fn = "find_candidate_elements"
    /\ called
    /\ arg.found[1] = 0
    /\ arg.found[2] = -1
    /\ arg.found[3] >= 1
    /\ arg.found[4] >= 1
    /\ ret = elements_of(3, arg.found[3])


\* C19: the enumeration holds at most one entry per candidate ID, and a
\* page on which one of its candidate links is presented a second time
\* gives the same result as the page that presents it once.
C19_OneEntryPerCandidate ==
    (fn = "get_candidate_links" /\ called) =>
        /\ \A j, k \in 1..Len(ret) : j # k => ret[j].id # ret[k].id
        /\ \A k \in 1..Len(arg) : \A pos \in k..Len(arg) :
               normalized_links(SubSeq(arg, 1, pos) \o <<arg[k]>>
                                \o SubSeq(arg, pos + 1, Len(arg))) = ret

C19_Witness ==
    /\ fn = "get_candidate_links"
    /\ called
    /\ Len(arg) = 2
    /\ arg[1] = arg[2]
    /\ arg[1].id # 0
    /\ ~arg[1].nh
    /\ Len(ret) = 1

\* C20: every link that enumeration returns is the profile URL built from
\* the run's job ID and the candidate's ID, whatever the form of the raw
\* link: another job, another endpoint, relative or absolute.
C20_LinksAreCanonical ==
    (fn = "normalize_link" /\ called) => ret = profile_url("job", arg.id)


\* C21: document location runs its strategies in the one priority order;
\* the element that is triggered comes from the lowest-numbered strategy
\* that produced one, and no strategy is run after it; when none produced
\* an element the fetch ends as a failure counted once, with no click and
\* no verification, and returns to the run.
C21_FirstStrategyWins ==
    /\ \A j, k \in 1..Len(consulted) : j < k => consulted[j].strategy < consulted[k].strategy
    /\ (file_element # 0 /\ consulted # <<>>) =>
           /\ consulted[Len(consulted)] = [strategy |-> file_element, result |-> "element"]
           /\ \A k \in 1..(Len(consulted) - 1) : consulted[k].result # "element"
    /\ vpc \in {"located", "triggered"} => file_element # 0
    /\ clicks # <<>> => file_element # 0
    /\ (vpc = "returned" /\ strategy > last_strategy /\ file_element = 0) =>
           /\ failed_count = 1
           /\ downloaded_count = 0
           /\ clicks = <<>>
           /\ phases = <<"navigate", "locate">>

C21_Witness ==
    /\ vpc = "located"
    /\ file_element = 6
    /\ consulted[1].result = "none"
    /\ consulted[2].result = "raises"
    /\ Len(consulted) = 3

\* C22: the direct click is made first and the programmatic click is made
\* only when the direct click failed; when both fail the fetch ends as a
\* failure counted once, without verification, and returns to the run.
C22_ScriptClickOnlyAfterDirectFails ==
    /\ Len(clicks) <= 2
    /\ clicks # <<>> => clicks[1].how = "direct"
    /\ Len(clicks) = 2 => (~clicks[1].ok /\ clicks[2].how = "script")
    /\ (clicks # <<>> /\ ~clicks[Len(clicks)].ok) =>
           /\ Len(clicks) = 2
           /\ vpc = "returned"
           /\ failed_count = 1
           /\ downloaded_count = 0
           /\ phases = <<"navigate", "locate", "trigger">>
           /\ initial_files = {}

C22_Witness ==
    /\ Len(clicks) = 2
    /\ ~clicks[2].ok
    /\ vpc = "returned"


C24_InvalidCookiesReported ==
    (/\ pc = "nav_raise"
     /\ cookies
     /\ ~cancelled
     /\ raised \in {MsgInvalidCookies, MsgLoginTimeout, MsgLoginVerification})
        => raised = MsgInvalidCookies


\* C25: wait_for_login makes at most 200 login checks (600 s polled every
\* 3 s) and then returns failure, which fails the run; a cancellation flag
\* set during the wait is seen at the next poll, the wait ends, and the run
\* is reported as cancelled rather than failed.
C25_LoginWaitBoundedAndCancellable ==
    /\ [](wait_time \in 0..max_wait /\ wait_time % check_interval = 0)
    /\ [][(pc = "wait_for_login" /\ pc' # "wait_for_login") =>
              IF cancelled \/ wait_time >= max_wait
              THEN pc' = "nav_raise" /\ raised' = MsgLoginTimeout
              ELSE pc' = "nav_verify"]_vars
    /\ [][(pc = "nav_raise" /\ raised = MsgLoginTimeout /\ ~cancelled
                            /\ pc' # "nav_raise") =>
              (pc' = "finally" /\ outcome' = "raised")]_vars
    /\ [][(pc = "wrap_write" /\ pc' = "done" /\ outcome = "raised"
                             /\ raised = MsgLoginTimeout) =>
              status' = IF sawCancelled THEN CANCELLED ELSE FAILED]_vars


\* C26: the enumeration is retried exactly once and only when the first
\* attempt gives no candidates: the retry (re-navigate, re-enumerate) is
\* started if and only if the first enumeration is empty, a run never
\* enumerates more than twice, and the candidates of a non-empty retry are
\* processed.
C26_RetryOnceWhenEmpty ==
    /\ [][(pc = "enumerate" /\ pc' # "enumerate") =>
              IF candidate_links' = <<>>
              THEN pc' = "nav_get" /\ navRet' = "retry"
              ELSE pc' = "loop_top" /\ i' = 1 /\ navRet' # "retry"]_vars
    /\ [][(pc = "enumerate_retry" /\ pc' # "enumerate_retry") =>
              IF candidate_links' = <<>>
              THEN pc' = "finally" /\ outcome' = "empty_return"
              ELSE pc' = "loop_top" /\ i' = 1]_vars
    /\ [][(pc' = "enumerate_retry" /\ pc # "enumerate_retry") =>
              (navRet = "retry" /\ candidate_links = <<>>)]_vars
    /\ [][(navRet' = "retry" /\ navRet # "retry") => pc = "enumerate"]_vars
    /\ [][(pc' = "enumerate" /\ pc # "enumerate") => navRet = "first"]_vars
    /\ [][(navRet' = "first" /\ navRet # "first") => pc = "setup"]_vars
    /\ [][(pc' = "setup" /\ pc # "setup") => pc = "idle"]_vars
    /\ [][pc' = "idle" => pc = "idle"]_vars
    /\ [](pc \in {"loop_top", "fetch", "next_candidate", "summary"} => candidate_links # <<>>)

C26_Witness ==
    /\ pc = "enumerate_retry"
    /\ candidate_links = <<>>
    /\ driver = "open"
    /\ ~cancelled


\* the candidates a page shows, whatever their status
Discovered(page) == {page[k].id : k \in 1..Len(page)} \ {0}

\* C27: in the final summary found counts every discovered candidate, the
\* ones excluded as not hired included, and uniqueFound counts the
\* enumerated ones; with three candidates discovered, one of them not hired,
\* and both fetches succeeding the summary is found 3, uniqueFound 2,
\* downloaded 2, uniqueDownloaded 2, failed 0, missingIds empty.
C27_FoundCountsDiscovered ==
    (fn = "download_summary" /\ called) =>
        /\ ret.found = Cardinality(Discovered(arg.page))
        /\ ret.uniqueFound = Len(normalized_links(arg.page))
        /\ (arg.page = ScenarioPage /\ arg.failing = {}) =>
               ret = [found |-> 3, uniqueFound |-> 2, downloaded |-> 2,
                      uniqueDownloaded |-> 2, failed |-> 0, missingIds |-> {}]


\* C28: at the final summary the missing IDs are the found IDs without the
\* downloaded IDs: they are disjoint from the downloaded IDs, together with
\* them they are the found IDs, and they are empty exactly when every
\* enumerated candidate was downloaded.
C28_MissingIsFoundMinusDownloaded ==
    pc = "summary" =>
        /\ missing_candidates \cap downloaded_candidate_ids = {}
        /\ missing_candidates \cup downloaded_candidate_ids = all_candidate_ids
        /\ missing_candidates = {} <=>
               \A k \in 1..Len(candidate_links) :
                   candidate_links[k].id \in downloaded_candidate_ids

C28_Witness ==
    /\ pc = "summary"
    /\ missing_candidates # {}
    /\ downloaded_candidate_ids # {}


\* C29: the cancellation flag of a downloader starts false and, once true,
\* is never reset, whatever runs afterwards: the cancel endpoint, the worker,
\* the completion of the run.
C29_CancelledIsMonotonic ==
    /\ [](pc = "idle" => ~cancelled)
    /\ [][(pc = "idle" /\ pc' = "setup") => ~cancelled']_vars
    /\ [][cancelled => cancelled']_vars

C29_Witness ==
    /\ cancelled
    /\ pc = "done"
    /\ taskPc = "done"
    /\ status = CANCELLED


\* the login wait ran out (nobody cancelled) and navigate_to_candidate_list raises
LoginWaitExpired == pc = "nav_raise" /\ raised = MsgLoginTimeout /\ ~cancelled

\* C30: every run of download_all_resumes terminates; its waits and loops
\* are bounded and nothing is retried for ever; a bounded wait that expires
\* leads to a failure outcome, not to another wait.
C30_RunTerminates ==
    /\ (pc = "setup") ~> (pc = "done")
    /\ [](LoginWaitExpired => [](pc # "wait_for_login"))
    /\ LoginWaitExpired ~> (pc = "done" /\ outcome = "raised")


FetchPhases == <<"navigate", "locate", "trigger", "verify", "done">>

\* C31: a fetch goes through navigate, locate, trigger, verify, done in that
\* order: the trigger comes only after an element was located on the
\* navigated profile, the verification only after a trigger, and the
\* downloaded count and the downloaded ID set grow only after the
\* verification succeeded.
C31_FetchPhasesInOrder ==
    /\ Len(phases) <= Len(FetchPhases)
    /\ phases = SubSeq(FetchPhases, 1, Len(phases))
    /\ Len(phases) >= 3 => file_element # 0
    /\ clicks # <<>> => (Len(phases) = 3 /\ file_element # 0)
    /\ vpc = "triggered" => (phases[Len(phases)] = "trigger" /\ clicks[Len(clicks)].ok)
    /\ vpc \in {"polling", "count_check", "chrome_check", "checked"} =>
           phases[Len(phases)] = "verify"
    /\ (downloaded_count > 0 \/ downloaded_candidate_ids # {}) =>
           /\ phases = FetchPhases
           /\ verified
           /\ downloaded_count = 1
           /\ downloaded_candidate_ids = {1}
           /\ failed_count = 0

C31_Witness ==
    /\ vpc = "returned"
    /\ phases = FetchPhases
    /\ downloaded_count = 1
    /\ file_element = 4


\* C32: in any window of RATE_LIMIT_WINDOW seconds the client issues at
\* most RATE_LIMIT_CALLS requests, whatever the times of the requests are.
C32_CallsBoundedPerWindow ==
    /\ Len(issued) <= RATE_LIMIT_CALLS
    /\ \A k \in 1..Len(issued) : clock - issued[k] < RATE_LIMIT_WINDOW
    /\ \A k \in 1..(Len(issued) - 1) : issued[k] <= issued[k + 1]

C32_Witness ==
    /\ waited = 31
    /\ Len(issued) = 41
    /\ issued[1] = 30
    /\ clock = 61


\* C33: _make_request makes at most max_retries attempts; it returns the
\* response of the first successful attempt and attempts nothing after it;
\* after the k-th failed attempt (k = 0, 1, ...) it waits 2^k seconds before
\* the next one; after the last failed attempt it raises without waiting.
C33_BoundedRetriesWithBackoff ==
    (fn = "make_request" /\ called) =>
        LET n == ret.attempts
            failed(k) == arg.outcomes[k] # "ok"
        IN /\ n \in 1..arg.max_retries
           /\ \A k \in 1..(n - 1) : failed(k)
           /\ ret.result = IF failed(n) THEN "raises" ELSE "response"
           /\ ret.waits = [k \in 1..(n - 1) |-> 2 ^ (k - 1)]
           /\ (ret.result = "raises" /\ arg.outcomes[n] # "other") => n = arg.max_retries

C33_Witness ==
    /\ fn = "make_request"
    /\ called
    /\ arg.max_retries = 3
    /\ arg.outcomes = <<"timeout", "error", "error">>
    /\ ret = [attempts |-> 3, waits |-> <<1, 2>>, result |-> "raises"]


\* C34: each of the four message shapes is parsed into a progress event in
\* every state of the download record: "Processing candidate i/n" and
\* "Successfully downloaded resume i/n" give current = i and total = n,
\* "Total Candidates Found: n" gives total = n, "Successfully Downloaded: n"
\* gives current = n; none of these lines is dropped as unparsed.
C34_FourShapesParsed ==
    (fn = "parse_progress_from_log" /\ called /\ arg.log_line.kind # "other") =>
        /\ DOMAIN ret # {}
        /\ arg.log_line.kind \in {"processing", "downloaded"} =>
               (ret.current = arg.log_line.cur /\ ret.total = arg.log_line.tot)
        /\ arg.log_line.kind = "total_found" => ret.total = arg.log_line.tot
        /\ arg.log_line.kind = "summary_downloaded" => ret.current = arg.log_line.cur


\* C35: when an inspection of the candidate element's status raises, at
\* whatever level (element, parent, further ancestor), is_candidate_not_hired
\* answers that the candidate is not excluded, so the candidate is kept.
C35_ErrorMeansNotExcluded ==
    (fn = "is_candidate_not_hired" /\ called /\ inspect_status(arg).erred) => ret = FALSE


\* C36: every processed candidate is counted exactly once, as downloaded or
\* as failed: whenever no candidate is being processed, downloaded_count +
\* failed_count is the number of candidates processed so far, also when the
\* re-navigation after a fetch raised.
C36_CountedExactlyOnce ==
    pc \in {"loop_top", "summary"} =>
        downloaded_count + failed_count = Len(attempted)


\* C37: cancelled is absorbing: once cancel_download has written the status
\* cancelled, no later write (the worker finishing its run, a run_download
\* task that starts afterwards) changes it.
C37_CancelledIsAbsorbing == [][status = CANCELLED => status' = CANCELLED]_vars

\* C38: cancel_download is idempotent: for an unknown download ID or a
\* download that is no longer pending or in_progress it leaves the record,
\* both registries and the flag as they are, and cancelling twice has the
\* effect of cancelling once.
C38_CancelIsIdempotent ==
    (fn = "cancel_download" /\ called) =>
        /\ arg.status \notin {PENDING, IN_PROGRESS} => ret = arg
        /\ cancel_download(ret) = ret
        /\ ret.status \notin {PENDING, IN_PROGRESS}

C38_Witness ==
    /\ fn = "cancel_download"
    /\ called
    /\ arg.status = IN_PROGRESS
    /\ arg.active_downloaders /\ arg.driver = "open" /\ arg.future = "pending"
    /\ ret.status = CANCELLED
    /\ ret.cancelled /\ ret.driver = "quit" /\ ret.future = "cancelled"
    /\ ~ret.active_downloaders


\* the number of items the API has on a page (-1: the request fails)
ItemsOn(endpoint, q) == IF q \in DOMAIN endpoint THEN endpoint[q] ELSE 0

\* C39: _paginate_request returns the pages 1..p joined in order, p being
\* the first page with fewer than 100 items (or the first empty page), and
\* asks for no page after p; when the request for page q fails it returns
\* the items of the pages 1..q-1 and does not raise.
C39_PagesUpToFirstShort ==
    (fn = "paginate_request" /\ called) =>
        LET p == ret.requested
            last == IF ItemsOn(arg, p) = -1 THEN 0 ELSE ItemsOn(arg, p)
            got(q) == IF q = p THEN last ELSE page_size
            before(q) == (q - 1) * page_size
        IN /\ p \in 1..(MaxPages + 1)
           /\ ItemsOn(arg, p) < page_size
           /\ \A q \in 1..(p - 1) : ItemsOn(arg, q) = page_size
           /\ Len(ret.results) = before(p) + last
           /\ \A q \in 1..p : \A k \in 1..got(q) :
                  ret.results[before(q) + k] = <<q, k>>

C39_Witness ==
    /\ fn = "paginate_request"
    /\ called
    /\ arg = <<page_size, page_size, -1>>
    /\ ret.requested = 3
    /\ Len(ret.results) = 2 * page_size
    /\ ret.results[page_size + 1] = <<2, 1>>

\* the progress lines download_all_resumes logs for candidates i..n, `ok`
\* being the candidates whose resume was downloaded
RECURSIVE candidate_lines(_, _, _, _)
candidate_lines(d, n, ok, idx) ==
    IF idx > n THEN <<>>
    ELSE <<[by |-> d, kind |-> "processing", cur |-> idx, tot |-> n]>>
         \o (IF idx \in ok THEN <<[by |-> d, kind |-> "downloaded", cur |-> idx, tot |-> n]>>
             ELSE <<>>)
         \o candidate_lines(d, n, ok, idx + 1)

\* the progress lines of one whole run of download_all_resumes over n candidates
run_log(d, n, ok) ==
    candidate_lines(d, n, ok, 1)
    \o <<[by |-> d, kind |-> "total_found", cur |-> 0, tot |-> n],
         [by |-> d, kind |-> "summary_downloaded", cur |-> Cardinality(ok), tot |-> 0]>>

IsPrefix(s, t) == Len(s) <= Len(t) /\ SubSeq(t, 1, Len(s)) = s

ProgressOf(record) == record.kind # "other"

\* the entries are what one run of download d, and nothing else, has logged so far
OwnRunSoFar(d, entries) ==
    \E n \in 1..MaxNum : \E ok \in SUBSET (1..n) :
        IsPrefix(SelectSeq(entries, ProgressOf), run_log(d, n, ok))

\* C40: within one run, from its first "Processing candidate" line to the
\* lines of its final summary, the progress 'current' shown to the client
\* never decreases.
C40_CurrentNeverDecreases ==
    [][\A d \in Downloads :
          OwnRunSoFar(d, log_entries'[d]) =>
              download_state'[d].current >= download_state[d].current]_vars

====
